---- MODULE Spec2Model ----
(***************************************************************************)
(* ResellApp: the OCR service (src/src/services/ocr.js), the hash router    *)
(* (src/unnamed/part_000) and the CSV import (src/unnamed/part_001).       *)
(*                                                                         *)
(* Texts are sequences of one-character strings.  Amounts of money are     *)
(* counted in cents (the source holds them as floats with two decimals).   *)
(* An exception is represented by its message.                             *)
(***************************************************************************)
EXTENDS Integers, Sequences, FiniteSets, TLC

VARIABLES
    env,        \* the host: which calls the page issues, which texts the OCR engine returns
    worker,     \* ocr.js:5   let worker = null   (0 is null, n > 0 the n-th worker created)
    created,    \* number of workers Tesseract.createWorker has produced so far
    pc,         \* per call: the await the call is suspended at
    w,          \* per call: const w (the value initWorker's promise resolved with)
    progress,   \* per call: the percentages passed to onProgress, in order
    nCreate,    \* per call: Tesseract.createWorker invocations made on behalf of the call
    nRecognize, \* per call: w.recognize invocations made by the call
    recognized, \* per call: the text the engine resolved with (<<>> before)
    extractedData, \* per call: const extractedData (NoData before parseReceiptText has run)
    raised,     \* per call: the exception the catch block caught (NoError if none)
    out,        \* per call: the object the call returned
    routes,         \* part_000:3   const routes = {}        (path -> handler)
    currentView,    \* part_000:4   let currentView = null
    onRouteChange,  \* part_000:5   let onRouteChange = null
    hash,           \* window.location.hash
    readyState,     \* document.readyState
    app,            \* whether document.getElementById('app') finds the element
    hashListener,   \* whether handleRoute is registered for 'hashchange'
    loaded,         \* number of DOMContentLoaded listeners registered and not yet run
    pending,        \* number of hashchange events queued
    log,            \* the router's calls in order: "handleRoute", "refresh", "render", "callback"
    version,        \* which importLotsFromCSV runs: "sales" (part_001) or "simple" (csvImport.js)
    importPc,       \* where the import call stands
    rows,           \* const rows = parseCSV(text)
    rowIndex,       \* the loop variable i
    lotsImported,   \* let lotsImported = 0   (let success = 0 in csvImport.js)
    salesImported,  \* let salesImported = 0
    errors,         \* const errors = []
    result,         \* the object the import call returned
    lots,           \* storage: the lots saveLot has saved
    sales           \* storage: the sales recordSale has recorded

ocrVars == <<env, worker, created, pc, w, progress, nCreate, nRecognize, recognized, extractedData, raised, out>>
routerVars == <<routes, currentView, onRouteChange, hash, readyState, app, hashListener, loaded, pending, log>>
importVars == <<version, importPc, rows, rowIndex, lotsImported, salesImported, errors, result, lots, sales>>
vars == <<ocrVars, routerVars, importVars>>

-----------------------------------------------------------------------------
(* Bounds *)

NumCalls == 2
MaxFrags == 3
MaxBlocks == 2
MaxOps == 3
MaxEvents == 1
MaxRows == 2

Calls == 1..NumCalls

-----------------------------------------------------------------------------
(* Characters and strings *)

Chars(s) == [i \in 1..Len(s) |-> SubSeq(s, i, i)]

UpperChars == Chars("ABCDEFGHIJKLMNOPQRSTUVWXYZ")
LowerChars == Chars("abcdefghijklmnopqrstuvwxyz")
DigitChars == Chars("0123456789")

UpperSet == {UpperChars[i] : i \in 1..26}
LowerSet == {LowerChars[i] : i \in 1..26}
DigitSet == {DigitChars[i] : i \in 1..10}
LowerOf == [c \in UpperSet |-> LowerChars[CHOOSE i \in 1..26 : UpperChars[i] = c]]
UpperOf == [c \in LowerSet |-> UpperChars[CHOOSE i \in 1..26 : LowerChars[i] = c]]
ValueOf == [c \in DigitSet |-> (CHOOSE i \in 1..10 : DigitChars[i] = c) - 1]

IsUpper(c) == c \in UpperSet
IsLower(c) == c \in LowerSet
IsLetter(c) == IsUpper(c) \/ IsLower(c)
IsDigit(c) == c \in DigitSet
DigitVal(c) == ValueOf[c]
\* \s of a JS regular expression and the characters String.prototype.trim strips
IsSpace(c) == c \in {" ", "\t", "\n", "\r", "\f"}

ToLowerChar(c) == IF IsUpper(c) THEN LowerOf[c] ELSE c
ToUpperChar(c) == IF IsLower(c) THEN UpperOf[c] ELSE c
toLowerCase(s) == [i \in 1..Len(s) |-> ToLowerChar(s[i])]
toUpperCase(s) == [i \in 1..Len(s) |-> ToUpperChar(s[i])]

Min(S) == CHOOSE x \in S : \A y \in S : x <= y
Max(S) == CHOOSE x \in S : \A y \in S : x >= y

\* the literal lit stands in s at position i (lit in lower case when ci, the /i flag)
LitAt(s, i, lit, ci) ==
    /\ i >= 1
    /\ i + Len(lit) - 1 <= Len(s)
    /\ \A k \in 1..Len(lit) : (IF ci THEN ToLowerChar(s[i + k - 1]) ELSE s[i + k - 1]) = lit[k]

\* String.prototype.includes
includes(s, lit) ==
    \/ lit = <<>>
    \/ \E i \in 1..(Len(s) - Len(lit) + 1) : s[i] = lit[1] /\ SubSeq(s, i, i + Len(lit) - 1) = lit

\* the first index >= i of s that is not a white space (Len(s)+1 if none): \s*
RECURSIVE SkipSpace(_, _)
SkipSpace(s, i) == IF i <= Len(s) /\ IsSpace(s[i]) THEN SkipSpace(s, i + 1) ELSE i

\* [:\s]*
RECURSIVE SkipColonSpace(_, _)
SkipColonSpace(s, i) ==
    IF i <= Len(s) /\ (IsSpace(s[i]) \/ s[i] = ":") THEN SkipColonSpace(s, i + 1) ELSE i

\* \d* (greedy)
RECURSIVE SkipDigits(_, _)
SkipDigits(s, i) == IF i <= Len(s) /\ IsDigit(s[i]) THEN SkipDigits(s, i + 1) ELSE i

\* the number written by the digits s[i..j]: parseInt(_, 10)
RECURSIVE parseInt(_, _, _)
parseInt(s, i, j) == IF j < i THEN 0 ELSE 10 * parseInt(s, i, j - 1) + DigitVal(s[j])

\* String.prototype.trim
RECURSIVE TrimEnd(_)
TrimEnd(s) == IF Len(s) > 0 /\ IsSpace(s[Len(s)]) THEN TrimEnd(SubSeq(s, 1, Len(s) - 1)) ELSE s
trim(s) == TrimEnd(SubSeq(s, SkipSpace(s, 1), Len(s)))

\* text.split('\n')
RECURSIVE split(_)
split(s) ==
    LET I == {i \in 1..Len(s) : s[i] = "\n"}
    IN  IF I = {} THEN <<s>>
        ELSE <<SubSeq(s, 1, Min(I) - 1)>> \o split(SubSeq(s, Min(I) + 1, Len(s)))

\* .map(l => l.trim()) without the filter
TrimKeepEmpty(ls) == [i \in 1..Len(ls) |-> trim(ls[i])]

\* .map(l => l.trim()).filter(l => l.length > 0)
RECURSIVE TrimNonEmpty(_)
TrimNonEmpty(ls) ==
    IF ls = <<>> THEN <<>>
    ELSE LET l == trim(Head(ls))
         IN  (IF Len(l) > 0 THEN <<l>> ELSE <<>>) \o TrimNonEmpty(Tail(ls))

\* the normalized line sequence
Lines(text) == TrimNonEmpty(split(text))

-----------------------------------------------------------------------------
(* Field extractors.  A pattern is an operator P(s, i): the value captured  *)
(* by a match of the regular expression starting at position i, or NoMatch. *)

NoMatch == -1

\* the literals of the patterns, in lower case where the pattern has the i flag
LitDollar == Chars("$")
LitUSD == Chars("usd")
LitTotal == Chars("total")
LitQty == Chars("qty")
LitQuantity == Chars("quantity")

\* (\d+[.,]\d{2}) at position j, as parseFloat(match[1].replace(',', '.')) in cents
Amount(s, j) ==
    LET k == SkipDigits(s, j)
    IN  IF /\ k > j
           /\ k + 2 <= Len(s)
           /\ s[k] \in {".", ","}
           /\ IsDigit(s[k + 1])
           /\ IsDigit(s[k + 2])
        THEN 100 * parseInt(s, j, k - 1) + 10 * DigitVal(s[k + 1]) + DigitVal(s[k + 2])
        ELSE NoMatch

\* /\$\s*(\d+[.,]\d{2})/
PriceDollar(s, i) == IF LitAt(s, i, LitDollar, FALSE) THEN Amount(s, SkipSpace(s, i + 1)) ELSE NoMatch

\* /USD\s*(\d+[.,]\d{2})/i
PriceUSD(s, i) == IF LitAt(s, i, LitUSD, TRUE) THEN Amount(s, SkipSpace(s, i + 3)) ELSE NoMatch

\* /Total[:\s]*\$?\s*(\d+[.,]\d{2})/i
PriceTotal(s, i) ==
    IF LitAt(s, i, LitTotal, TRUE)
    THEN LET j == SkipColonSpace(s, i + 5)
             k == IF j <= Len(s) /\ s[j] = "$" THEN j + 1 ELSE j
         IN  Amount(s, SkipSpace(s, k))
    ELSE NoMatch

\* (\d+) at position j
Digits(s, j) == LET k == SkipDigits(s, j) IN IF k > j THEN parseInt(s, j, k - 1) ELSE NoMatch

\* /Qty[:\s]*(\d+)/i
QtyQty(s, i) == IF LitAt(s, i, LitQty, TRUE) THEN Digits(s, SkipColonSpace(s, i + 3)) ELSE NoMatch

\* /Quantity[:\s]*(\d+)/i
QtyQuantity(s, i) ==
    IF LitAt(s, i, LitQuantity, TRUE) THEN Digits(s, SkipColonSpace(s, i + 8)) ELSE NoMatch

\* /(\d+)\s*@\s*\$/i
QtyAt(s, i) ==
    LET k == SkipDigits(s, i)
        a == SkipSpace(s, k)
        d == SkipSpace(s, a + 1)
    IN  IF k > i /\ a <= Len(s) /\ s[a] = "@" /\ d <= Len(s) /\ s[d] = "$"
        THEN parseInt(s, i, k - 1)
        ELSE NoMatch

\* the capture of a match of pattern p starting at position i
PatternAt(p, s, i) ==
    CASE p = "$" -> PriceDollar(s, i)
      [] p = "USD" -> PriceUSD(s, i)
      [] p = "Total" -> PriceTotal(s, i)
      [] p = "Qty" -> QtyQty(s, i)
      [] p = "Quantity" -> QtyQuantity(s, i)
      [] p = "@" -> QtyAt(s, i)

\* match.index (1-based) of text.match(pattern), 0 when there is no match
matchIndex(s, p) ==
    LET I == {i \in 1..Len(s) : PatternAt(p, s, i) # NoMatch}
    IN  IF I = {} THEN 0 ELSE Min(I)

\* text.match(pattern)[1] of a pattern without the g flag: the leftmost match only
match(s, p) ==
    LET index == matchIndex(s, p)
    IN  IF index = 0 THEN NoMatch ELSE PatternAt(p, s, index)

\* for (const pattern of pricePatterns): the three matches, in the order of the list
PriceMatches(text) == <<match(text, "$"), match(text, "USD"), match(text, "Total")>>

PriceLimit == 500000   \* 5000 in cents

\* ... price <= 5000
PriceStepInclusive(cost, m) == IF m # NoMatch /\ m > cost /\ m <= PriceLimit THEN m ELSE cost

\* if (match) { if (price > cost && price < 5000) cost = price }
PriceStep(cost, m) == IF m # NoMatch /\ m > cost /\ m < PriceLimit THEN m ELSE cost

ExtractCost(text) ==
    LET m == PriceMatches(text)
    IN  PriceStep(PriceStep(PriceStep(0, m[1]), m[2]), m[3])

\* for (const pattern of qtyPatterns): the three matches, in the order of the list
QtyMatches(text) == <<match(text, "Qty"), match(text, "Quantity"), match(text, "@")>>

\* the patterns tried in the order N @ $, Qty, Quantity
ExtractQuantityAtFirst(text) ==
    LET m == QtyMatches(text)
    IN  IF m[3] # NoMatch THEN m[3]
        ELSE IF m[1] # NoMatch THEN m[1]
        ELSE IF m[2] # NoMatch THEN m[2]
        ELSE 1

\* let quantity = 1; for (...) { if (match) { quantity = parseInt(match[1], 10); break } }
ExtractQuantity(text) ==
    LET m == QtyMatches(text)
    IN  IF m[1] # NoMatch THEN m[1]
        ELSE IF m[2] # NoMatch THEN m[2]
        ELSE IF m[3] # NoMatch THEN m[3]
        ELSE 1

\* quantity returned as matched
NoFloorQuantity(q) == q

\* Math.max(1, quantity)
FloorQuantity(q) == IF q < 1 THEN 1 ELSE q

-----------------------------------------------------------------------------
(* Line classifier *)

STATE_ABBREVS ==
    {Chars("AL"), Chars("AK"), Chars("AZ"), Chars("AR"), Chars("CA"),
     Chars("CO"), Chars("CT"), Chars("DE"), Chars("FL"), Chars("GA"),
     Chars("HI"), Chars("ID"), Chars("IL"), Chars("IN"), Chars("IA"),
     Chars("KS"), Chars("KY"), Chars("LA"), Chars("ME"), Chars("MD"),
     Chars("MA"), Chars("MI"), Chars("MN"), Chars("MS"), Chars("MO"),
     Chars("MT"), Chars("NE"), Chars("NV"), Chars("NH"), Chars("NJ"),
     Chars("NM"), Chars("NY"), Chars("NC"), Chars("ND"), Chars("OH"),
     Chars("OK"), Chars("OR"), Chars("PA"), Chars("RI"), Chars("SC"),
     Chars("SD"), Chars("TN"), Chars("TX"), Chars("UT"), Chars("VT"),
     Chars("VA"), Chars("WA"), Chars("WV"), Chars("WI"), Chars("WY")}

PRODUCT_INDICATORS ==
    {Chars("jacket"), Chars("coat"), Chars("blender"), Chars("set"), Chars("pack"),
     Chars("wireless"), Chars("leather"), Chars("cotton"), Chars("kitchen"), Chars("mixer"),
     Chars("headphones"), Chars("speaker"), Chars("tablet"), Chars("laptop"), Chars("camera"),
     Chars("shoes"), Chars("boots"), Chars("sneakers"), Chars("dress"), Chars("shirt"),
     Chars("pants"), Chars("jeans"), Chars("watch"), Chars("ring"), Chars("necklace"),
     Chars("bracelet"), Chars("earbuds"), Chars("charger"), Chars("cable"), Chars("bag"),
     Chars("backpack"), Chars("wallet"), Chars("purse"), Chars("case"), Chars("cover"),
     Chars("stand"), Chars("holder"), Chars("tool"), Chars("drill"), Chars("saw"),
     Chars("vacuum"), Chars("cleaner"), Chars("iron"), Chars("toaster"), Chars("oven"),
     Chars("pro"), Chars("max"), Chars("plus"), Chars("ultra"), Chars("mini"),
     Chars("lite"), Chars("edition"), Chars("series"), Chars("womens"), Chars("mens"),
     Chars("women"), Chars("men"), Chars("kids"), Chars("boys"), Chars("girls"),
     Chars("front"), Chars("back"), Chars("zip"), Chars("lined"), Chars("fully"),
     Chars("new"), Chars("black"), Chars("white"), Chars("blue"), Chars("red")}

KNOWN_BRANDS ==
    {Chars("cole haan"), Chars("nike"), Chars("adidas"), Chars("apple"),
     Chars("samsung"), Chars("sony"), Chars("lg"), Chars("kitchenaid"),
     Chars("ninja"), Chars("instant pot"), Chars("cuisinart"), Chars("dyson"),
     Chars("shark"), Chars("roomba"), Chars("irobot"), Chars("north face"),
     Chars("patagonia"), Chars("columbia"), Chars("levi"), Chars("calvin klein"),
     Chars("ralph lauren"), Chars("michael kors"), Chars("coach"), Chars("kate spade"),
     Chars("gucci"), Chars("prada"), Chars("louis vuitton"), Chars("bose"),
     Chars("jbl"), Chars("beats"), Chars("anker"), Chars("logitech"),
     Chars("razer"), Chars("hp"), Chars("dell"), Chars("lenovo"),
     Chars("amazon basics"), Chars("mainstays"), Chars("better homes")}

uiExclusions ==
    {Chars("your orders"), Chars("your account"), Chars("buy again"), Chars("cart"),
     Chars("checkout"), Chars("subtotal"), Chars("shipping"), Chars("tax"),
     Chars("total"), Chars("payment"), Chars("track package"), Chars("hello"),
     Chars("sign in"), Chars("home"), Chars("menu"), Chars("search"),
     Chars("amazon"), Chars("target"), Chars("walmart"), Chars("prime"),
     Chars("delivery"), Chars("return"), Chars("customer service"), Chars("my account"),
     Chars("sign out"), Chars("help"), Chars("view order")}

MIN_SCORE_THRESHOLD == 50

\* \w of a JS regular expression
IsWord(c) == IsLetter(c) \/ IsDigit(c) \/ c = "_"
WordAt(s, i) == i >= 1 /\ i <= Len(s) /\ IsWord(s[i])
\* \b between the positions i-1 and i
Boundary(s, i) == WordAt(s, i - 1) # WordAt(s, i)

DigitAt(s, i) == i >= 1 /\ i <= Len(s) /\ IsDigit(s[i])
UpperAt(s, i) == i >= 1 /\ i <= Len(s) /\ IsUpper(s[i])
LowerAt(s, i) == i >= 1 /\ i <= Len(s) /\ IsLower(s[i])
CharAt(s, i, c) == i >= 1 /\ i <= Len(s) /\ s[i] = c

\* [a-z]* (greedy)
RECURSIVE SkipLower(_, _)
SkipLower(s, i) == IF LowerAt(s, i) THEN SkipLower(s, i + 1) ELSE i

\* the two dashes of the address pattern that are not ASCII, each one character
EmDash == "u2014"
EnDash == "u2013"

\* /[A-Z][a-z]+\s+[A-Z][a-z]+\s*[--]\s*[A-Z]+/ starting at position i
NameDashRegionAt(s, i) ==
    LET a == SkipLower(s, i + 1)
        b == SkipSpace(s, a)
        c == SkipLower(s, b + 1)
        d == SkipSpace(s, c)
        e == SkipSpace(s, d + 1)
    IN  /\ UpperAt(s, i)
        /\ a > i + 1
        /\ b > a
        /\ UpperAt(s, b)
        /\ c > b + 1
        /\ d <= Len(s)
        /\ s[d] \in {EmDash, EnDash, "-"}
        /\ UpperAt(s, e)

\* /\b\d{5}(-\d{4})?\b/ starting at position i
ZipAt(s, i) ==
    /\ \A k \in 0..4 : DigitAt(s, i + k)
    /\ Boundary(s, i)
    /\ \/ /\ CharAt(s, i + 5, "-")
          /\ \A k \in 6..9 : DigitAt(s, i + k)
          /\ Boundary(s, i + 10)
       \/ Boundary(s, i + 5)

\* /ship(ping)?\s*to/i starting at position i
LitShip == Chars("ship")
LitPing == Chars("ping")
LitTo == Chars("to")
ShipToAt(s, i) ==
    /\ LitAt(s, i, LitShip, TRUE)
    /\ \/ /\ LitAt(s, i + 4, LitPing, TRUE)
          /\ LitAt(s, SkipSpace(s, i + 8), LitTo, TRUE)
       \/ LitAt(s, SkipSpace(s, i + 4), LitTo, TRUE)

\* new RegExp(`\\b${state}\\b`).test(upper) for some state of STATE_ABBREVS
StateCodeAt(upper, i) ==
    /\ i + 1 <= Len(upper)
    /\ SubSeq(upper, i, i + 1) \in STATE_ABBREVS
    /\ Boundary(upper, i)
    /\ Boundary(upper, i + 2)

looksLikeAddress(line) ==
    LET upper == toUpperCase(line)
    IN  \/ \E i \in 1..Len(line) : StateCodeAt(upper, i)
        \/ \E i \in 1..Len(line) : ZipAt(line, i)
        \/ \E i \in 1..Len(line) : ShipToAt(line, i)
        \/ \E i \in 1..Len(line) : NameDashRegionAt(line, i)

\* /^a\s+b/i
StartsWords(s, a, b) ==
    /\ LitAt(s, 1, a, TRUE)
    /\ SkipSpace(s, Len(a) + 1) > Len(a) + 1
    /\ LitAt(s, SkipSpace(s, Len(a) + 1), b, TRUE)

\* /\d+\s*@\s*\$?\d+/i starting at position i
UnitPriceAt(s, i) ==
    LET a == SkipSpace(s, SkipDigits(s, i))
        d == SkipSpace(s, a + 1)
    IN  /\ DigitAt(s, i)
        /\ CharAt(s, a, "@")
        /\ \/ DigitAt(s, d)
           \/ CharAt(s, d, "$") /\ DigitAt(s, d + 1)

\* . of a JS regular expression: any character but a line terminator
IsDot(c) == c \notin {"\n", "\r"}

\* /\$\d+[.,]\d{2}.*\d+%/i starting at position i
PricePercentAt(s, i) ==
    LET k == SkipDigits(s, i + 1)
    IN  /\ CharAt(s, i, "$")
        /\ k > i + 1
        /\ k <= Len(s) /\ s[k] \in {".", ","}
        /\ DigitAt(s, k + 1) /\ DigitAt(s, k + 2)
        /\ \E j \in (k + 3)..Len(s) :
              /\ DigitAt(s, j)
              /\ CharAt(s, SkipDigits(s, j), "%")
              /\ \A x \in (k + 3)..(j - 1) : IsDot(s[x])

LitOff == Chars("off")
LitDiscount == Chars("discount")
\* /\d+%\s*(off|discount)/i starting at position i
PercentOffAt(s, i) ==
    LET j == SkipSpace(s, i + 2)
    IN  /\ DigitAt(s, i)
        /\ CharAt(s, i + 1, "%")
        /\ LitAt(s, j, LitOff, TRUE) \/ LitAt(s, j, LitDiscount, TRUE)

\* /reference\s*price/i starting at position i
LitReference == Chars("reference")
LitPrice == Chars("price")
ReferencePriceAt(s, i) ==
    /\ LitAt(s, i, LitReference, TRUE)
    /\ LitAt(s, SkipSpace(s, i + 9), LitPrice, TRUE)

Months ==
    {Chars("jan"), Chars("feb"), Chars("mar"), Chars("apr"), Chars("may"), Chars("jun"),
     Chars("jul"), Chars("aug"), Chars("sep"), Chars("oct"), Chars("nov"), Chars("dec")}

\* /^(jan|feb|mar|apr|may|jun|jul|aug|sep|oct|nov|dec)\s+\d+/i
StartsMonthDay(s) ==
    /\ Len(s) >= 3
    /\ toLowerCase(SubSeq(s, 1, 3)) \in Months
    /\ SkipSpace(s, 4) > 4
    /\ DigitAt(s, SkipSpace(s, 4))

\* /^\d{1,2}[\/\-]\d{1,2}[\/\-]\d{2,4}/
StartsNumericDate(s) ==
    LET a == SkipDigits(s, 1)
        b == SkipDigits(s, a + 1)
    IN  /\ a \in {2, 3}
        /\ a <= Len(s) /\ s[a] \in {"/", "-"}
        /\ b - (a + 1) \in {1, 2}
        /\ b <= Len(s) /\ s[b] \in {"/", "-"}
        /\ DigitAt(s, b + 1) /\ DigitAt(s, b + 2)

\* /^sold\s+by/i, /^ships\s+from/i, /^fulfilled\s+by/i, /^order\s+date/i, /^order\s+placed/i,
\* /^order\s+number/i
ExcludedWordPairs ==
    {<<Chars("sold"), Chars("by")>>, <<Chars("ships"), Chars("from")>>,
     <<Chars("fulfilled"), Chars("by")>>, <<Chars("order"), Chars("date")>>,
     <<Chars("order"), Chars("placed")>>, <<Chars("order"), Chars("number")>>}

\* /^arriving/i, /^delivered/i, /^tracking/i, /^condition:/i, /^color:/i, /^size:/i, /^gender:/i,
\* /^quantity:/i
ExcludedPrefixes ==
    {Chars("arriving"), Chars("delivered"), Chars("tracking"), Chars("condition:"),
     Chars("color:"), Chars("size:"), Chars("gender:"), Chars("quantity:")}

LitOrder == Chars("order")
LitDetails == Chars("details")
LitHelp == Chars("help")

isExcludedLine(line) ==
    LET s == trim(line)
    IN  \/ \E p \in ExcludedWordPairs : StartsWords(s, p[1], p[2])
        \/ LitAt(s, 1, LitOrder, TRUE) /\ LET j == SkipSpace(s, 6) IN CharAt(s, j, "#") \/ CharAt(s, j, ":")
        \/ \E p \in ExcludedPrefixes : LitAt(s, 1, p, TRUE)
        \/ \E i \in 1..Len(s) : UnitPriceAt(s, i)
        \/ \E i \in 1..Len(s) : PricePercentAt(s, i)
        \/ \E i \in 1..Len(s) : PercentOffAt(s, i)
        \/ \E i \in 1..Len(s) : ReferencePriceAt(s, i)
        \/ StartsMonthDay(s)
        \/ StartsNumericDate(s)
        \/ StartsWords(s, LitOrder, LitDetails) /\ SkipSpace(s, 6) + 7 = Len(s) + 1
        \/ toLowerCase(s) = LitHelp

\* line.split(/\s+/)
RECURSIVE splitWs(_)
splitWs(s) ==
    LET I == {i \in 1..Len(s) : IsSpace(s[i])}
    IN  IF I = {} THEN <<s>>
        ELSE <<SubSeq(s, 1, Min(I) - 1)>> \o splitWs(SubSeq(s, SkipSpace(s, Min(I)), Len(s)))

\* .filter(w => w.length > 1).length
LongWords(words) == Cardinality({i \in 1..Len(words) : Len(words[i]) > 1})

\* (line.match(/[a-zA-Z]/g) || []).length
Letters(line) == Cardinality({i \in 1..Len(line) : IsLetter(line[i])})

isValidProductName(line) ==
    /\ LongWords(splitWs(line)) >= 2
    /\ ~ (10 * Letters(line) < 6 * Len(line))      \* letterRatio < 0.6
    /\ ~ (Len(line) < 15)
    /\ Len(line) >= 1 /\ IsLetter(line[1])

-----------------------------------------------------------------------------
(* Candidate scorer *)

\* one bonus per list, however many of its terms the line contains
getProductIndicatorScoreCapped(line) ==
    LET lower == toLowerCase(line)
    IN  (IF \E x \in PRODUCT_INDICATORS : includes(lower, x) THEN 30 ELSE 0)
        + (IF \E x \in KNOWN_BRANDS : includes(lower, x) THEN 60 ELSE 0)

getProductIndicatorScore(line) ==
    LET lower == toLowerCase(line)
    IN  30 * Cardinality({x \in PRODUCT_INDICATORS : includes(lower, x)})
        + 60 * Cardinality({x \in KNOWN_BRANDS : includes(lower, x)})

\* a match of /\b[A-Z][a-z]{2,}/ starts at position i
CapitalizedWordAt(s, i) ==
    Boundary(s, i) /\ UpperAt(s, i) /\ LowerAt(s, i + 1) /\ LowerAt(s, i + 2)

SizeWords == {Chars("(small)"), Chars("(medium)"), Chars("(large)")}
\* /\([SMLX]{1,2}\)|\(Small\)|\(Medium\)|\(Large\)/i starting at position i
SizeAt(s, i) ==
    LET SMLX == {"s", "m", "l", "x"}
        low(k) == ToLowerChar(s[k])
    IN  /\ CharAt(s, i, "(")
        /\ \/ i + 2 <= Len(s) /\ low(i + 1) \in SMLX /\ s[i + 2] = ")"
           \/ i + 3 <= Len(s) /\ low(i + 1) \in SMLX /\ low(i + 2) \in SMLX /\ s[i + 3] = ")"
           \/ \E x \in SizeWords : LitAt(s, i, x, TRUE)

\* the score of cleanLine, the line at index (0-based) of n lines
Score(cleanLine, index, n) ==
    LET len == Len(cleanLine)
        wordCount == Len(splitWs(cleanLine))
        capitalizedWords == Cardinality({i \in 1..len : CapitalizedWordAt(cleanLine, i)})
    IN  getProductIndicatorScore(cleanLine)
        + (IF len >= 20 /\ len <= 70 THEN 25 ELSE IF len >= 15 /\ len <= 90 THEN 10 ELSE 0)
        + (IF wordCount >= 4 /\ wordCount <= 12 THEN 25 ELSE IF wordCount >= 3 THEN 10 ELSE 0)
        + (IF UpperAt(cleanLine, 1) /\ LowerAt(cleanLine, 2) THEN 15 ELSE 0)
        + (IF capitalizedWords >= 2 THEN 20 ELSE 0)
        + (IF \E i \in 1..len : SizeAt(cleanLine, i) THEN 30 ELSE 0)
        + (IF 100 * index >= 15 * n /\ 100 * index <= 55 * n THEN 15 ELSE 0)   \* 0.15 <= index / n <= 0.55
        - (IF 100 * index < 8 * n \/ 100 * index > 85 * n THEN 25 ELSE 0)      \* index / n < 0.08 or > 0.85

-----------------------------------------------------------------------------
(* Candidate selector *)

\* [|=\-*#@$%\s]
IsLeadNoise(c) == c \in {"|", "=", "-", "*", "#", "@", "$", "%"} \/ IsSpace(c)

RECURSIVE SkipLeadNoise(_, _)
SkipLeadNoise(s, i) == IF i <= Len(s) /\ IsLeadNoise(s[i]) THEN SkipLeadNoise(s, i + 1) ELSE i

RECURSIVE StripTrailingPipes(_)
StripTrailingPipes(s) ==
    IF Len(s) > 0 /\ s[Len(s)] = "|" THEN StripTrailingPipes(SubSeq(s, 1, Len(s) - 1)) ELSE s

\* line.replace(/^[|=\-*#@$%\s]+/, '').replace(/[|]+$/, '').trim()
CleanLine(line) == trim(StripTrailingPipes(SubSeq(line, SkipLeadNoise(line, 1), Len(line))))

uiExcluded(cleanLine) ==
    LET lower == toLowerCase(cleanLine)
    IN  \E p \in uiExclusions : includes(lower, p)

\* the filters without the address filter
IsCandidateNoAddressFilter(line) ==
    LET cleanLine == CleanLine(line)
    IN  /\ ~ (Len(cleanLine) < 12 \/ Len(cleanLine) > 120)
        /\ isValidProductName(cleanLine)
        /\ ~ uiExcluded(cleanLine)
        /\ ~ isExcludedLine(cleanLine)

\* the body of lines.forEach up to START SCORING: the line becomes a candidate
IsCandidate(line) ==
    LET cleanLine == CleanLine(line)
    IN  /\ ~ (Len(cleanLine) < 12 \/ Len(cleanLine) > 120)
        /\ isValidProductName(cleanLine)
        /\ ~ uiExcluded(cleanLine)
        /\ ~ looksLikeAddress(cleanLine)
        /\ ~ isExcludedLine(cleanLine)

\* candidates.push({ line: cleanLine, score, index }) for the lines from position k (1-based) on
RECURSIVE CandidatesFrom(_, _)
CandidatesFrom(lines, k) ==
    IF k > Len(lines) THEN <<>>
    ELSE LET cleanLine == CleanLine(lines[k])
         IN  (IF IsCandidate(lines[k])
              THEN <<[line |-> cleanLine,
                      score |-> Score(cleanLine, k - 1, Len(lines)),
                      index |-> k - 1]>>
              ELSE <<>>) \o CandidatesFrom(lines, k + 1)

Candidates(lines) == CandidatesFrom(lines, 1)

\* c inserted before the elements of equal score: a sort that is not stable
RECURSIVE InsertBeforeEqual(_, _)
InsertBeforeEqual(sorted, c) ==
    IF sorted = <<>> THEN <<c>>
    ELSE IF Head(sorted).score > c.score THEN <<Head(sorted)>> \o InsertBeforeEqual(Tail(sorted), c)
    ELSE <<c>> \o sorted

\* c inserted into a sequence sorted by score descending, after the elements of equal score
RECURSIVE Insert(_, _)
Insert(sorted, c) ==
    IF sorted = <<>> THEN <<c>>
    ELSE IF Head(sorted).score >= c.score THEN <<Head(sorted)>> \o Insert(Tail(sorted), c)
    ELSE <<c>> \o sorted

\* candidates.sort((a, b) => b.score - a.score): Array.prototype.sort is stable
RECURSIVE SortByScore(_)
SortByScore(cs) ==
    IF cs = <<>> THEN <<>> ELSE Insert(SortByScore(SubSeq(cs, 1, Len(cs) - 1)), cs[Len(cs)])

UnnamedItem == Chars("Unnamed Item")

\* for (const candidate of candidates) if (candidate.score >= MIN_SCORE_THRESHOLD) { bestName = ...; break }
BestName(sorted) ==
    LET I == {i \in 1..Len(sorted) : sorted[i].score >= MIN_SCORE_THRESHOLD}
    IN  IF I = {} THEN UnnamedItem ELSE sorted[Min(I)].line

\* the whole string
substringAll(s) == s

\* bestName.substring(0, 100)
substring100(s) == SubSeq(s, 1, IF Len(s) < 100 THEN Len(s) ELSE 100)

parseReceiptText(text) ==
    [name     |-> trim(substring100(BestName(SortByScore(Candidates(Lines(text)))))),
     cost     |-> ExtractCost(text),
     quantity |-> FloorQuantity(ExtractQuantity(text))]

-----------------------------------------------------------------------------
(* The texts the OCR engine returns *)

Fragments ==
    {Chars("$12.00"), Chars("$45.00"), Chars("$5000.00"), Chars("USD 60,50"),
     Chars("Total:"), Chars("Qty: 7"), Chars("Quantity"), Chars("3 @ "),
     Chars("0"), Chars(" \t"), Chars("\n"), Chars(":")}

\* the concatenations of at most n fragments
RECURSIVE TextsOf(_)
TextsOf(n) ==
    IF n = 0 THEN {<<>>}
    ELSE LET T == TextsOf(n - 1) IN T \cup {t \o f : t \in T, f \in Fragments}

FragmentTexts == TextsOf(MaxFrags)

SampleTexts ==
    {<<>>,
     Chars(" \n\t "),
     Chars("Qty: 0\n$12.00 off\nTotal: $45.00")}

\* blocks of receipt lines: product lines, address lines, seller and navigation
\* lines, lines with OCR noise around them, lines over 100 and over 120 characters
NameBlocks ==
    {Chars("memo\nnike running shoes black"),
     Chars("Nike running shoes black"),
     Chars("|= Adidas Mens Running Shoes (XL) |"),
     Chars("wooden thingamajig"),
     Chars("Nike Shoes Austin tx"),
     Chars("Nike shoes box 78701\nNike shoes shipTo John\nNike Shoes - BLACK edition"),
     Chars("Nike socks M 123 | |"),
     Chars("Sony Wireless Headphones with noise cancelling microphone and bluetooth adapter to studio recording now black"),
     Chars("a\nb\nc\nd\ne\nf"),
     Chars("Sold by Nike Store Online\nTrack package Nike shoes\nNike shoes XL"),
     Chars("Sony Wireless Headphones with noise cancelling microphone and bluetooth adapter for studio recording sessions and gaming use")}

\* the texts of at most n blocks, one block after the other on lines of their own
RECURSIVE NameTextsOf(_)
NameTextsOf(n) ==
    IF n = 0 THEN {<<>>}
    ELSE LET T == NameTextsOf(n - 1)
         IN  T \cup {IF t = <<>> THEN b ELSE t \o <<"\n">> \o b : t \in T, b \in NameBlocks}

NameTexts == NameTextsOf(MaxBlocks)

Texts(e) ==
    CASE e.texts = "samples" -> SampleTexts
      [] e.texts = "names"   -> NameTexts
      [] OTHER               -> FragmentTexts

-----------------------------------------------------------------------------
(* extractOrderData *)

\* the checkpoints of onProgress
Checkpoints == {10, 30, 80, 100}

\* the exceptions that can reach the catch block
CreateErrors == {[kind |-> "createWorker", message |-> "worker failed to load"]}
RecognizeErrors == {[kind |-> "recognize", message |-> "image unreadable"]}
TextError == [kind |-> "text", message |-> "Cannot read properties of undefined (reading 'text')"]
\* the caller's onProgress throws when given p
ObserverError(p) == [kind |-> "observer", message |-> "onProgress failed", at |-> p]
NoError == [kind |-> "none"]

NoResult == [pending |-> TRUE]
NoData == [parsed |-> FALSE]

\* return { success: true, rawText: text, ...extractedData }
SuccessResult(text, data) ==
    [success  |-> TRUE,
     rawText  |-> text,
     name     |-> data.name,
     cost     |-> data.cost,
     quantity |-> data.quantity]

\* the object the catch block returns
FailureResult(error) ==
    [success  |-> FALSE,
     error    |-> error.message,
     rawText  |-> <<>>,
     name     |-> UnnamedItem,
     cost     |-> 0,
     quantity |-> 1]

\* the exception leaves extractOrderData: the caller's await throws
CatchRethrow(c, error) ==
    /\ pc' = [pc EXCEPT ![c] = "threw"]
    /\ UNCHANGED out

\* catch (error) { ...; return {...} }: the call completes with the failure result
Catch(c, error) ==
    /\ pc' = [pc EXCEPT ![c] = "done"]
    /\ out' = [out EXCEPT ![c] = FailureResult(error)]

\* the calls of onProgress stand outside the try block
ThrowObserverUncaught(c, error) ==
    /\ raised' = [raised EXCEPT ![c] = error]
    /\ IF error.kind = "observer"
       THEN pc' = [pc EXCEPT ![c] = "threw"] /\ UNCHANGED out
       ELSE Catch(c, error)

\* error is thrown inside the try block of call c
Throw(c, error) ==
    /\ raised' = [raised EXCEPT ![c] = error]
    /\ Catch(c, error)

TypeOK ==
    /\ worker \in 0..NumCalls
    /\ created \in 0..NumCalls
    /\ pc \in [Calls -> {"idle", "creating", "initDone", "recognizing", "done", "threw"}]
    /\ w \in [Calls -> 0..NumCalls]
    /\ nCreate \in [Calls -> Nat]
    /\ nRecognize \in [Calls -> Nat]

Null == "null"

\* the router before the page's script has run, on a page without a hash
RouterIdle ==
    /\ routes = <<>>
    /\ currentView = Null
    /\ onRouteChange = Null
    /\ hash = <<>>
    /\ readyState = "loading"
    /\ app = TRUE
    /\ hashListener = FALSE
    /\ loaded = 0
    /\ pending = 0
    /\ log = <<>>

\* no import has been started, the storage is empty
ImportIdle ==
    /\ version = "sales"
    /\ importPc = "idle"
    /\ rows = <<>>
    /\ rowIndex = 0
    /\ lotsImported = 0
    /\ salesImported = 0
    /\ errors = <<>>
    /\ result = Null
    /\ lots = <<>>
    /\ sales = <<>>

InitCalls ==
    /\ worker = 0
    /\ created = 0
    /\ pc = [c \in Calls |-> "idle"]
    /\ w = [c \in Calls |-> 0]
    /\ progress = [c \in Calls |-> <<>>]
    /\ nCreate = [c \in Calls |-> 0]
    /\ nRecognize = [c \in Calls |-> 0]
    /\ recognized = [c \in Calls |-> <<>>]
    /\ extractedData = [c \in Calls |-> NoData]
    /\ raised = [c \in Calls |-> NoError]
    /\ out = [c \in Calls |-> NoResult]

\* the page issues NumCalls calls, which may overlap
Init == env = [calls |-> Calls, texts |-> "samples"] /\ InitCalls /\ RouterIdle /\ ImportIdle

\* one call, over every text built of fragments
InitParse == env = [calls |-> {1}, texts |-> "fragments"] /\ InitCalls /\ RouterIdle /\ ImportIdle

\* one call, the OCR engine returns receipts made of NameBlocks
InitName == env = [calls |-> {1}, texts |-> "names"] /\ InitCalls /\ RouterIdle /\ ImportIdle

\* extractOrderData is called and runs to its first await:
\*   onProgress(10); const w = await initWorker();
\* initWorker returns the worker if there is one, and otherwise calls createWorker
Start(c) ==
    /\ c \in env.calls
    /\ pc[c] = "idle"
    /\ progress' = [progress EXCEPT ![c] = Append(@, 10)]
    /\ \E throws \in BOOLEAN :
          IF throws
          THEN Throw(c, ObserverError(10)) /\ UNCHANGED <<w, nCreate>>
          ELSE IF worker # 0
          THEN /\ pc' = [pc EXCEPT ![c] = "initDone"]
               /\ w' = [w EXCEPT ![c] = worker]
               /\ UNCHANGED <<nCreate, raised, out>>
          ELSE /\ pc' = [pc EXCEPT ![c] = "creating"]
               /\ nCreate' = [nCreate EXCEPT ![c] = @ + 1]
               /\ UNCHANGED <<w, raised, out>>
    /\ UNCHANGED <<importVars, routerVars, env, worker, created, nRecognize, recognized, extractedData>>

\* Tesseract.createWorker resolves:  worker = await ...; return worker;
CreateResolve(c) ==
    /\ pc[c] = "creating"
    /\ created' = created + 1
    /\ worker' = created + 1
    /\ w' = [w EXCEPT ![c] = created + 1]
    /\ pc' = [pc EXCEPT ![c] = "initDone"]
    /\ UNCHANGED <<importVars, routerVars, env, progress, nCreate, nRecognize, recognized, extractedData, raised, out>>

\* Tesseract.createWorker rejects: the assignment to worker is not made
CreateReject(c) ==
    /\ pc[c] = "creating"
    /\ \E e \in CreateErrors : Throw(c, e)
    /\ UNCHANGED <<importVars, routerVars, env, worker, created, w, progress, nCreate, nRecognize, recognized, extractedData>>

\* the call resumes with w:  onProgress(30); const result = await w.recognize(image);
Recognize(c) ==
    /\ pc[c] = "initDone"
    /\ progress' = [progress EXCEPT ![c] = Append(@, 30)]
    /\ \E throws \in BOOLEAN :
          IF throws
          THEN Throw(c, ObserverError(30)) /\ UNCHANGED nRecognize
          ELSE /\ pc' = [pc EXCEPT ![c] = "recognizing"]
               /\ nRecognize' = [nRecognize EXCEPT ![c] = @ + 1]
               /\ UNCHANGED <<raised, out>>
    /\ UNCHANGED <<importVars, routerVars, env, worker, created, w, nCreate, recognized, extractedData>>

\* w.recognize resolves with text:
\*   onProgress(80); const text = result.data.text;
\*   const extractedData = parseReceiptText(text); onProgress(100); return {...}
RecognizeResolve(c) ==
    /\ pc[c] = "recognizing"
    /\ \E text \in Texts(env) :
          LET data == parseReceiptText(text)
          IN  \E throws \in {0, 80, 100} :
                  /\ recognized' = [recognized EXCEPT ![c] = text]
                  /\ IF throws = 80
                     THEN /\ progress' = [progress EXCEPT ![c] = Append(@, 80)]
                          /\ Throw(c, ObserverError(80))
                          /\ UNCHANGED extractedData
                     ELSE /\ progress' = [progress EXCEPT ![c] = Append(Append(@, 80), 100)]
                          /\ extractedData' = [extractedData EXCEPT ![c] = data]
                          /\ IF throws = 100
                             THEN Throw(c, ObserverError(100))
                             ELSE /\ pc' = [pc EXCEPT ![c] = "done"]
                                  /\ out' = [out EXCEPT ![c] = SuccessResult(text, data)]
                                  /\ UNCHANGED raised
    /\ UNCHANGED <<importVars, routerVars, env, worker, created, w, nCreate, nRecognize>>

\* w.recognize resolves with a result that has no data.text to read: a TypeError
RecognizeMalformed(c) ==
    /\ pc[c] = "recognizing"
    /\ progress' = [progress EXCEPT ![c] = Append(@, 80)]
    /\ \E throws \in BOOLEAN : Throw(c, IF throws THEN ObserverError(80) ELSE TextError)
    /\ UNCHANGED <<importVars, routerVars, env, worker, created, w, nCreate, nRecognize, recognized, extractedData>>

\* w.recognize rejects and the call reports completion all the same
RecognizeRejectReports100(c) ==
    /\ pc[c] = "recognizing"
    /\ progress' = [progress EXCEPT ![c] = Append(@, 100)]
    /\ \E e \in RecognizeErrors : Throw(c, e)
    /\ UNCHANGED <<importVars, routerVars, env, worker, created, w, nCreate, nRecognize, recognized, extractedData>>

\* w.recognize rejects and the call tries the recognition again
RecognizeRejectRetry(c) ==
    /\ pc[c] = "recognizing"
    /\ nRecognize[c] < 3
    /\ nRecognize' = [nRecognize EXCEPT ![c] = @ + 1]
    /\ UNCHANGED <<importVars, routerVars, env, worker, created, pc, w, progress, nCreate, recognized, extractedData, raised, out>>

\* w.recognize rejects
RecognizeReject(c) ==
    /\ pc[c] = "recognizing"
    /\ \E e \in RecognizeErrors : Throw(c, e)
    /\ UNCHANGED <<importVars, routerVars, env, worker, created, w, progress, nCreate, nRecognize, recognized, extractedData>>

Next ==
    \E c \in Calls :
        \/ Start(c)
        \/ CreateResolve(c)
        \/ CreateReject(c)
        \/ Recognize(c)
        \/ RecognizeResolve(c)
        \/ RecognizeMalformed(c)
        \/ RecognizeReject(c)

Spec == Init /\ [][Next]_vars

SpecParse == InitParse /\ [][Next]_vars

SpecName == InitName /\ [][Next]_vars

-----------------------------------------------------------------------------
(* Properties of extractOrderData *)

OcrFailureKinds == {"createWorker", "recognize", "text"}
Done(c) == pc[c] = "done"
Succeeded(c) == Done(c) /\ out[c].success
Failed(c) == Done(c) /\ ~ out[c].success

\* C1: extractOrderData never lets an exception reach its caller; when worker creation,
\* recognition or the reading of the recognized text fails, the call completes with
\* success false, the failure's message as error, an empty rawText, the name
\* "Unnamed Item", cost 0 and quantity 1.
C1_FailureResult ==
    \A c \in Calls :
        /\ pc[c] # "threw"
        /\ raised[c].kind \in OcrFailureKinds =>
              /\ Done(c)
              /\ out[c] = [success |-> FALSE, error |-> raised[c].message, rawText |-> <<>>,
                           name |-> Chars("Unnamed Item"), cost |-> 0, quantity |-> 1]

C1_Witness ==
    \E c, d \in Calls :
        /\ raised[c].kind = "createWorker" /\ Done(c)
        /\ raised[d].kind = "text" /\ Done(d)

\* C2: over any number of calls, in any interleaving, at most one worker is created
\* and every call recognizes on that same worker.
C2_SingleWorker ==
    /\ created <= 1
    /\ \A c, d \in Calls : (nRecognize[c] > 0 /\ nRecognize[d] > 0) => w[c] = w[d]

\* C3: no two recognize calls are in flight on the same worker at the same time.
C3_SerializedRecognize ==
    \A c, d \in Calls :
        (c # d /\ pc[c] = "recognizing" /\ pc[d] = "recognizing") => w[c] # w[d]

FullProgress == <<10, 30, 80, 100>>
IsPrefix(p, q) == Len(p) <= Len(q) /\ SubSeq(q, 1, Len(p)) = p
NonDecreasing(p) == \A i, j \in 1..Len(p) : i < j => p[i] <= p[j]

\* the percentages of call c are a non-decreasing prefix of 10, 30, 80, 100, with 10
\* before the worker is acquired, 30 before recognition, 80 after recognition and 100
\* after parsing; an OCR failure never reports 100
Checkpointed(c) ==
    /\ IsPrefix(progress[c], FullProgress)
    /\ NonDecreasing(progress[c])
    /\ pc[c] = "idle" => progress[c] = <<>>
    /\ pc[c] \in {"creating", "initDone"} => progress[c] = <<10>>
    /\ (nCreate[c] > 0 \/ w[c] # 0) => Len(progress[c]) >= 1
    /\ pc[c] = "recognizing" => progress[c] = <<10, 30>>
    /\ nRecognize[c] > 0 => Len(progress[c]) >= 2
    /\ Len(progress[c]) >= 3 => nRecognize[c] = 1 /\ Done(c)
    /\ Len(progress[c]) = 4 => extractedData[c] # NoData
    /\ (Failed(c) /\ raised[c].kind \in OcrFailureKinds) => Len(progress[c]) < 4

\* C4 as claimed: ... and the full sequence is reported exactly when the call returns
\* success true.
C4_FullIffSuccess ==
    \A c \in Calls :
        /\ Checkpointed(c)
        /\ Done(c) => (progress[c] = FullProgress <=> out[c].success)

\* C4, amended: within one call the percentages passed to the observer are a
\* non-decreasing prefix of 10, 30, 80, 100 (10 before worker acquisition, 30 before
\* recognition, 80 after recognition, 100 after parsing); a call that returns success
\* true has reported the full sequence; a call that reported the full sequence returns
\* success true unless the observer itself threw at the 100 checkpoint; 100 is never
\* reported by a call that fails because of an OCR failure.
C4_Progress ==
    \A c \in Calls :
        /\ Checkpointed(c)
        /\ Succeeded(c) => progress[c] = FullProgress
        /\ (Done(c) /\ progress[c] = FullProgress) =>
              \/ out[c].success
              \/ raised[c] = ObserverError(100)

C4_Witness ==
    \E c, d \in Calls :
        /\ Failed(c) /\ progress[c] = FullProgress
        /\ Succeeded(d)

\* C5: a call invokes createWorker at most once and recognize at most once; the step
\* in which either fails performs no OCR operation and returns the failure result, and
\* the call does nothing afterwards.
C5_NoRetries ==
    [][\A c \in Calls :
          /\ nCreate'[c] <= 1
          /\ nRecognize'[c] <= 1
          /\ (raised[c] = NoError /\ raised'[c].kind \in {"createWorker", "recognize"}) =>
                /\ nCreate'[c] = nCreate[c]
                /\ nRecognize'[c] = nRecognize[c]
                /\ pc'[c] = "done"
                /\ out'[c].success = FALSE
                /\ out'[c].error = raised'[c].message
          /\ raised[c] # NoError =>
                /\ nCreate'[c] = nCreate[c]
                /\ nRecognize'[c] = nRecognize[c]
                /\ pc'[c] = pc[c]
                /\ out'[c] = out[c]]_vars

C5_Witness ==
    \E c, d \in Calls :
        /\ raised[c].kind = "recognize" /\ nCreate[c] = 1 /\ nRecognize[c] = 1 /\ Failed(c)
        /\ raised[d].kind = "createWorker" /\ nCreate[d] = 1 /\ nRecognize[d] = 0 /\ Failed(d)

-----------------------------------------------------------------------------
(* Properties of parseReceiptText, through the calls of extractOrderData *)

IsBlank(text) == \A i \in 1..Len(text) : IsSpace(text[i])

AllAmounts(text) ==
    {PriceDollar(text, i) : i \in 1..Len(text)}
        \cup {PriceUSD(text, i) : i \in 1..Len(text)}
        \cup {PriceTotal(text, i) : i \in 1..Len(text)}

LargestAmount(text) ==
    LET A == {a \in AllAmounts(text) : a # NoMatch /\ a > 0 /\ a < PriceLimit}
    IN  IF A = {} THEN 0 ELSE Max(A)

\* C7: the extracted cost is the largest amount, among all occurrences in the text of
\* any of the three price patterns, that is greater than 0 and less than 5000.
C7_LargestOfAll ==
    \A c \in Calls : Succeeded(c) => out[c].cost = LargestAmount(recognized[c])

\* C8: in every result 0 <= cost < 5000; the cost is 0 when no price pattern matches.
C8_CostBounds ==
    \A c \in Calls :
        LET unmatched == AllAmounts(recognized[c]) \subseteq {NoMatch}
        IN  /\ Done(c) =>
                  /\ out[c].cost \in 0..(PriceLimit - 1)
                  /\ unmatched => out[c].cost = 0
            /\ extractedData[c] # NoData =>
                  /\ extractedData[c].cost \in 0..(PriceLimit - 1)
                  /\ unmatched => extractedData[c].cost = 0

C8_Witness ==
    \E c \in Calls :
        /\ Succeeded(c)
        /\ match(recognized[c], "$") = PriceLimit
        /\ out[c].cost = 6050

\* the capture of the first of Qty, Quantity, N @ $ that matches text (NoMatch if none does)
FirstQtyCapture(text) ==
    LET m == QtyMatches(text)
        K == {k \in 1..3 : m[k] # NoMatch}
    IN  IF K = {} THEN NoMatch ELSE m[Min(K)]

\* C9: the quantity is the number captured by the first of the patterns Qty: N,
\* Quantity: N, N @ $ (in that order) that matches anywhere in the text, raised to 1;
\* where in the text the matches stand does not matter.
C9_QuantityPriority ==
    \A c \in Calls :
        LET capture == FirstQtyCapture(recognized[c])
        IN  (Succeeded(c) /\ capture # NoMatch) =>
                out[c].quantity = (IF capture = 0 THEN 1 ELSE capture)

C9_Witness ==
    \E c \in Calls :
        /\ Succeeded(c)
        /\ matchIndex(recognized[c], "@") > 0
        /\ matchIndex(recognized[c], "@") < matchIndex(recognized[c], "Qty")
        /\ match(recognized[c], "@") = 3
        /\ match(recognized[c], "Qty") = 7
        /\ out[c].quantity = 7

\* C10: in every result the quantity is an integer >= 1; a matched quantity of 0 is
\* raised to 1, and the quantity is 1 when no quantity pattern matches.
C10_QuantityAtLeastOne ==
    \A c \in Calls :
        Done(c) =>
            /\ out[c].quantity \in Nat
            /\ out[c].quantity >= 1
            /\ (Succeeded(c) /\ FirstQtyCapture(recognized[c]) \in {0, NoMatch}) => out[c].quantity = 1

C10_Witness ==
    \E c \in Calls :
        /\ Succeeded(c)
        /\ FirstQtyCapture(recognized[c]) = 0
        /\ out[c].quantity = 1

-----------------------------------------------------------------------------
(* Claims about the name *)

\* the position in cs of the candidate of the highest score and, among those of
\* that score, of the smallest line index
TopCandidate(cs) ==
    CHOOSE i \in 1..Len(cs) :
        \A j \in 1..Len(cs) :
            \/ cs[j].score < cs[i].score
            \/ cs[j].score = cs[i].score /\ cs[j].index >= cs[i].index

\* the name the selection of C11 gives for a text
SelectedName(text) ==
    LET cs == Candidates(Lines(text))
    IN  IF cs = <<>> \/ cs[TopCandidate(cs)].score < 50
        THEN Chars("Unnamed Item")
        ELSE trim(substring100(cs[TopCandidate(cs)].line))

\* C11: the returned name comes from the candidate with the highest score, among
\* equal top scores from the one with the smallest line index, and only if that
\* score is >= 50; with no candidate, or none scoring >= 50, the name is
\* "Unnamed Item".
C11_Selection ==
    \A c \in Calls : Succeeded(c) => out[c].name = SelectedName(recognized[c])

\* two candidates share the top score, which is >= 50, and the earlier one is named
C11_Witness ==
    \E c \in Calls :
        /\ Succeeded(c)
        /\ LET cs == Candidates(Lines(recognized[c]))
           IN  \E i, j \in 1..Len(cs) :
                   /\ i < j
                   /\ cs[i].score = cs[j].score
                   /\ cs[i].score >= 50
                   /\ cs[i].line # cs[j].line
                   /\ \A k \in 1..Len(cs) : cs[k].score <= cs[i].score
                   /\ out[c].name = cs[i].line

\* the 0-based index of the line the name of a text is taken from, -1 when the
\* name is "Unnamed Item"
NamedIndex(text) ==
    LET cs == Candidates(Lines(text))
    IN  IF cs = <<>> \/ cs[TopCandidate(cs)].score < 50 THEN -1 ELSE cs[TopCandidate(cs)].index

\* C12: a line that is address-like after cleanup (a US state code as a whole word
\* in any letter case, a 5-digit or ZIP+4 code, "ship to" / "shipping to", or
\* Capitalized Capitalized dash UPPERCASE) is never returned as the name, whatever
\* its score would have been and whatever other lines the text contains: it is not
\* the line the name is taken from, and a name taken whole from its line (of at
\* most 100 characters) differs from every address-like line.
C12_AddressNeverNamed ==
    \A c \in Calls :
        Succeeded(c) =>
            LET lines == Lines(recognized[c])
                named == NamedIndex(recognized[c])
            IN  \A k \in 1..Len(lines) :
                    looksLikeAddress(CleanLine(lines[k])) =>
                        /\ named # k - 1
                        /\ (named >= 0 /\ Len(CleanLine(lines[named + 1])) <= 100) =>
                               out[c].name # CleanLine(lines[k])

\* an address-like line would have outscored the line that is named
C12_Witness ==
    \E c \in Calls :
        /\ Succeeded(c)
        /\ out[c].name # Chars("Unnamed Item")
        /\ LET lines == Lines(recognized[c])
               named == NamedIndex(recognized[c])
           IN  \E k \in 1..Len(lines) :
                   /\ looksLikeAddress(CleanLine(lines[k]))
                   /\ IsCandidateNoAddressFilter(lines[k])
                   /\ named >= 0
                   /\ Score(CleanLine(lines[k]), k - 1, Len(lines))
                        > Score(CleanLine(lines[named + 1]), named, Len(lines))

-----------------------------------------------------------------------------
(* Claims about the result object *)

ExtractionResultFields == {"name", "cost", "quantity", "rawText", "success", "error"}

\* C13: every result returned by extractOrderData carries the six ExtractionResult
\* fields name, cost, quantity, rawText, success and error; on a successful
\* extraction error is null and rawText is the recognized text unchanged.
C13_SixFields ==
    \A c \in Calls :
        Done(c) =>
            /\ DOMAIN out[c] = ExtractionResultFields
            /\ out[c].success => (out[c].error = "null" /\ out[c].rawText = recognized[c])

-----------------------------------------------------------------------------
(* Claims about the classification of lines *)

\* the outcome of cleanup, the 12..120 length gate and isValidProductName on a line
Accepted(line) ==
    /\ Len(CleanLine(line)) >= 12
    /\ Len(CleanLine(line)) <= 120
    /\ isValidProductName(CleanLine(line))

\* C14: classification is idempotent: for every line, cleanup followed by the
\* length gate and isValidProductName, applied to the already-cleaned line, gives
\* the same cleaned text and the same accept/reject outcome as on the original line.
C14_Idempotent ==
    \A c \in Calls :
        Succeeded(c) =>
            \A k \in 1..Len(Lines(recognized[c])) :
                LET line == Lines(recognized[c])[k]
                IN  /\ CleanLine(CleanLine(line)) = CleanLine(line)
                    /\ Accepted(CleanLine(line)) = Accepted(line)

-----------------------------------------------------------------------------
(* Claims about the score *)

\* the number of terms of a list that the line contains
TermsIn(line, terms) ==
    LET lower == toLowerCase(line)
    IN  Cardinality({t \in terms : includes(lower, t)})

\* the bonuses of C16 for a cleaned line at index (0-based) of n non-empty lines
VocabularyBonus(line) == 30 * TermsIn(line, PRODUCT_INDICATORS)
BrandBonus(line) == 60 * TermsIn(line, KNOWN_BRANDS)
LengthBonus(line) ==
    IF Len(line) \in 20..70 THEN 25 ELSE IF Len(line) \in 15..90 THEN 10 ELSE 0
TokenBonus(line) ==
    IF Len(splitWs(line)) \in 4..12 THEN 25 ELSE IF Len(splitWs(line)) >= 3 THEN 10 ELSE 0
StartBonus(line) == IF Len(line) >= 2 /\ IsUpper(line[1]) /\ IsLower(line[2]) THEN 15 ELSE 0
CapitalizedBonus(line) ==
    IF Cardinality({i \in 1..Len(line) : CapitalizedWordAt(line, i)}) >= 2 THEN 20 ELSE 0
SizeBonus(line) == IF \E i \in 1..Len(line) : SizeAt(line, i) THEN 30 ELSE 0
\* index / n in [0.15, 0.55]: +15; index / n < 0.08 or > 0.85: -25
PositionBonus(index, n) ==
    (IF 100 * index >= 15 * n /\ 100 * index <= 55 * n THEN 15 ELSE 0)
    + (IF 100 * index < 8 * n \/ 100 * index > 85 * n THEN 0 - 25 ELSE 0)

BonusSum(line, index, n) ==
    VocabularyBonus(line) + BrandBonus(line) + LengthBonus(line) + TokenBonus(line)
    + StartBonus(line) + CapitalizedBonus(line) + SizeBonus(line) + PositionBonus(index, n)

\* C16: for every line that survives all filters the candidate score is exactly
\* the sum of the independent bonuses: +30 per product-vocabulary term and +60 per
\* known-brand term contained in the line (uncapped), the length bonus, the token
\* count bonus, +15 for an uppercase-then-lowercase start, +20 for >= 2 capitalized
\* words, +30 for a size parenthetical, and the position bonus or penalty on
\* index / (number of non-empty lines); no other term contributes.
C16_ScoreIsSum ==
    \A c \in Calls :
        Succeeded(c) =>
            LET lines == Lines(recognized[c])
                cs == Candidates(lines)
            IN  \A i \in 1..Len(cs) :
                    cs[i].score = BonusSum(cs[i].line, cs[i].index, Len(lines))

\* a line with a brand, three vocabulary terms and a size parenthetical, once in
\* the middle of the text and once as its first line
C16_Witness ==
    \E c \in Calls :
        /\ Succeeded(c)
        /\ LET lines == Lines(recognized[c])
               cs == Candidates(lines)
           IN  \E i, j \in 1..Len(cs) :
                   /\ cs[i].line = Chars("Adidas Mens Running Shoes (XL)")
                   /\ cs[j].line = cs[i].line
                   /\ 100 * cs[i].index >= 15 * Len(lines)
                   /\ 100 * cs[i].index <= 55 * Len(lines)
                   /\ cs[i].score = 280
                   /\ cs[j].index = 0
                   /\ cs[j].score = 240

-----------------------------------------------------------------------------
(* Claims about the returned name *)

\* the trimmed first-100-characters prefix of a string
TrimmedPrefix100(s) == trim(IF Len(s) <= 100 THEN s ELSE SubSeq(s, 1, 100))

\* C17: a returned name other than "Unnamed Item" is the trimmed first-100-characters
\* prefix of a cleaned line of the text whose cleaned length is between 12 and 120,
\* that has at least 2 whitespace-separated tokens longer than one character, a
\* letter-to-character ratio >= 0.6, length >= 15 and an alphabetic first
\* character; so the name is never empty, never longer than 100 characters and has
\* no leading or trailing whitespace.
C17_NameProperties ==
    \A c \in Calls :
        (Done(c) /\ out[c].name # Chars("Unnamed Item")) =>
            LET name == out[c].name
                lines == Lines(recognized[c])
            IN  /\ \E k \in 1..Len(lines) :
                       LET cleaned == CleanLine(lines[k])
                       IN  /\ name = TrimmedPrefix100(cleaned)
                           /\ Len(cleaned) >= 12 /\ Len(cleaned) <= 120
                           /\ LongWords(splitWs(cleaned)) >= 2
                           /\ 10 * Letters(cleaned) >= 6 * Len(cleaned)
                           /\ Len(cleaned) >= 15
                           /\ IsLetter(cleaned[1])
                /\ name # <<>>
                /\ Len(name) <= 100
                /\ ~ IsSpace(name[1])
                /\ ~ IsSpace(name[Len(name)])

\* the name is cut from a line of more than 100 characters whose 100th character is
\* a space
C17_Witness ==
    \E c \in Calls :
        /\ Succeeded(c)
        /\ Len(out[c].name) = 99
        /\ \E k \in 1..Len(Lines(recognized[c])) :
               LET cleaned == CleanLine(Lines(recognized[c])[k])
               IN  /\ Len(cleaned) > 100
                   /\ IsSpace(cleaned[100])
                   /\ out[c].name = SubSeq(cleaned, 1, 99)

-----------------------------------------------------------------------------
(* Claims about the progress observer *)

\* C18: an exception raised by the caller's progress observer at any checkpoint
\* (10, 30, 80 or 100) is not propagated by extractOrderData: the call returns the
\* failure result with success false and default fields; when the observer throws
\* at 100, the name, cost and quantity already parsed are discarded and rawText is
\* returned empty.
C18_ObserverContained ==
    \A c \in Calls :
        raised[c].kind = "observer" =>
            /\ raised[c].at \in {10, 30, 80, 100}
            /\ pc[c] # "threw"
            /\ Done(c)
            /\ out[c].success = FALSE
            /\ out[c].name = Chars("Unnamed Item")
            /\ out[c].cost = 0
            /\ out[c].quantity = 1
            /\ out[c].rawText = <<>>
            /\ raised[c].at = 100 =>
                  (extractedData[c] = parseReceiptText(recognized[c]) /\ progress[c] = <<10, 30, 80, 100>>)
            /\ raised[c].at # 100 => extractedData[c] = NoData

\* the observer throws at 100 after a cost of 45.00 was parsed from a non-empty text;
\* another call's observer throws at 10
C18_Witness ==
    \E c, d \in Calls :
        /\ raised[c].kind = "observer" /\ raised[c].at = 100
        /\ extractedData[c].cost = 4500
        /\ recognized[c] # <<>>
        /\ out[c].cost = 0 /\ out[c].rawText = <<>>
        /\ raised[d].kind = "observer" /\ raised[d].at = 10
        /\ Done(d)

-----------------------------------------------------------------------------
(* The hash router (src/unnamed/part_000) *)

\* the paths the application registers, the paths it navigates to, its view
\* render functions and the callback it passes to initRouter
Paths == {Chars("/"), Chars("/inventory")}
Targets == Paths \cup {Chars("/sales")}
Views == {"DashboardView", "InventoryView"}
Callbacks == {"initEvents"}

\* the number of handleRoute and refresh calls made so far
Ops(l) == Cardinality({i \in 1..Len(l) : l[i] \in {"handleRoute", "refresh"}})

\* const hash = window.location.hash.slice(1); return hash || '/'
getPath == IF hash = <<>> \/ Tail(hash) = <<>> THEN Chars("/") ELSE Tail(hash)

\* routes[path] || routes['/']
Resolve(path) ==
    IF path \in DOMAIN routes THEN routes[path]
    ELSE IF Chars("/") \in DOMAIN routes THEN routes[Chars("/")]
    ELSE Null

\* the render without the callback
RenderOnly(cb) == <<"render">>

\* app.innerHTML = handler(); if (onRouteChange) { onRouteChange(); }
Render(cb) == <<"render">> \o (IF cb # Null THEN <<"callback">> ELSE <<>>)

\* handleRoute(), run with cb as onRouteChange; returns: the handler returns (it
\* may throw instead)
handleRoute(cb, returns) ==
    LET handler == Resolve(getPath)
    IN  IF handler # Null
        THEN /\ currentView' = handler
             /\ log' = log \o <<"handleRoute">> \o (IF app /\ returns THEN Render(cb) ELSE <<>>)
        ELSE /\ log' = log \o <<"handleRoute">>
             /\ UNCHANGED currentView

\* if (!window.location.hash) { window.location.hash = '/'; } else { handleRoute(); }
\* the assignment to the hash queues a hashchange event
Arrive(cb) ==
    IF hash = <<>>
    THEN /\ pending < MaxEvents
         /\ hash' = Chars("#/")
         /\ pending' = pending + 1
         /\ UNCHANGED <<currentView, log>>
    ELSE /\ Ops(log) < MaxOps
         /\ \E returns \in BOOLEAN : handleRoute(cb, returns)
         /\ UNCHANGED <<hash, pending>>

\* route(path, handler)
route(path, handler) ==
    /\ routes' = [p \in DOMAIN routes \cup {path} |-> IF p = path THEN handler ELSE routes[p]]
    /\ UNCHANGED <<currentView, onRouteChange, hash, readyState, app, hashListener, loaded, pending, log>>
    /\ UNCHANGED <<ocrVars, importVars>>

\* navigate(path): window.location.hash = path; a changed hash queues a hashchange event
navigate(path) ==
    /\ pending < MaxEvents
    /\ <<"#">> \o path # hash
    /\ hash' = <<"#">> \o path
    /\ pending' = pending + 1
    /\ UNCHANGED <<routes, currentView, onRouteChange, readyState, app, hashListener, loaded, log>>
    /\ UNCHANGED <<ocrVars, importVars>>

\* initRouter(callback)
initRouter(callback) ==
    /\ onRouteChange' = callback
    /\ hashListener' = TRUE
    /\ IF readyState = "loading"
       THEN /\ loaded < MaxEvents
            /\ loaded' = loaded + 1
            /\ UNCHANGED <<currentView, hash, pending, log>>
       ELSE /\ Arrive(callback)
            /\ UNCHANGED loaded
    /\ UNCHANGED <<routes, readyState, app>>
    /\ UNCHANGED <<ocrVars, importVars>>

\* the document has been parsed: DOMContentLoaded is dispatched
ContentLoaded ==
    /\ readyState = "loading"
    /\ readyState' = "interactive"
    /\ UNCHANGED <<routes, currentView, onRouteChange, hash, app, hashListener, loaded, pending, log>>
    /\ UNCHANGED <<ocrVars, importVars>>

\* one DOMContentLoaded listener of initRouter runs
LoadedListener ==
    /\ readyState # "loading"
    /\ loaded > 0
    /\ loaded' = loaded - 1
    /\ Arrive(onRouteChange)
    /\ UNCHANGED <<routes, onRouteChange, readyState, app, hashListener>>
    /\ UNCHANGED <<ocrVars, importVars>>

\* a queued hashchange event is dispatched: handleRoute runs if it is registered
HashChange ==
    /\ pending > 0
    /\ pending' = pending - 1
    /\ IF hashListener
       THEN /\ Ops(log) < MaxOps
            /\ \E returns \in BOOLEAN : handleRoute(onRouteChange, returns)
       ELSE UNCHANGED <<currentView, log>>
    /\ UNCHANGED <<routes, onRouteChange, hash, readyState, app, hashListener, loaded>>
    /\ UNCHANGED <<ocrVars, importVars>>

\* refresh(); returns: currentView() returns (it may throw instead)
refresh ==
    /\ Ops(log) < MaxOps
    /\ \E returns \in BOOLEAN :
          log' = log \o <<"refresh">>
                     \o (IF currentView # Null /\ app /\ returns THEN Render(onRouteChange) ELSE <<>>)
    /\ UNCHANGED <<routes, currentView, onRouteChange, hash, readyState, app, hashListener, loaded, pending>>
    /\ UNCHANGED <<ocrVars, importVars>>

\* the page adds or removes the element with id 'app'
SetApp ==
    /\ app' = ~ app
    /\ UNCHANGED <<routes, currentView, onRouteChange, hash, readyState, hashListener, loaded, pending, log>>
    /\ UNCHANGED <<ocrVars, importVars>>

\* the page is loaded with or without a hash, the script runs before or after the
\* document is parsed; no extraction is running
RouterInit ==
    /\ env = [calls |-> {}, texts |-> "samples"]
    /\ InitCalls
    /\ ImportIdle
    /\ routes = <<>>
    /\ currentView = Null
    /\ onRouteChange = Null
    /\ hash \in {<<>>, Chars("#/inventory"), Chars("#/sales")}
    /\ readyState \in {"loading", "complete"}
    /\ app \in BOOLEAN
    /\ hashListener = FALSE
    /\ loaded = 0
    /\ pending = 0
    /\ log = <<>>

RouterNext ==
    \/ \E path \in Paths, handler \in Views : route(path, handler)
    \/ \E path \in Targets : navigate(path)
    \/ \E callback \in Callbacks : initRouter(callback)
    \/ ContentLoaded
    \/ LoadedListener
    \/ HashChange
    \/ refresh
    \/ SetApp

SpecRouter == RouterInit /\ [][RouterNext]_vars

\* in a trace every render is directly followed by a callback, and every callback
\* directly follows a render
Alternates(l) ==
    \A i \in 1..Len(l) :
        /\ l[i] = "render" => (i < Len(l) /\ l[i + 1] = "callback")
        /\ l[i] = "callback" => (i > 1 /\ l[i - 1] = "render")

\* C15: after initRouter(callback), every render of the app element, whether by
\* handleRoute or by refresh(), is followed by exactly one invocation of the
\* callback before any other render, and the callback is never invoked without a
\* render immediately before it; when no handler is resolved or the app element is
\* missing, neither a render nor a callback happens.
C15_RenderThenCallback ==
    [][LET added == SubSeq(log', Len(log) + 1, Len(log'))
       IN  /\ Alternates(log')
           /\ (added # <<>> /\ Head(added) = "handleRoute" /\ (Resolve(getPath) = Null \/ ~ app))
                 => added = <<"handleRoute">>
           /\ (added # <<>> /\ Head(added) = "refresh" /\ (currentView = Null \/ ~ app))
                 => added = <<"refresh">>]_vars

\* a route change renders and calls back, refresh() renders and calls back, and a
\* route change with the app element removed does neither
C15_Witness ==
    /\ log = <<"handleRoute", "render", "callback", "refresh", "render", "callback", "handleRoute">>
    /\ ~ app
    /\ Resolve(getPath) # Null

-----------------------------------------------------------------------------
(* The CSV import (src/unnamed/part_001, and its version without sales in    *)
(* src/src/services/csvImport.js).  Amounts are counted in cents; the dates  *)
(* of lots and sales are left out.                                           *)

\* row[col]; a column the file does not have reads as undefined, which the code
\* treats like '' (both are falsy)
Field(row, col) == IF col \in DOMAIN row THEN row[col] ELSE <<>>

\* row.a || row.b || ... || default
RECURSIVE FirstOf(_, _, _)
FirstOf(row, cols, default) ==
    IF cols = <<>> THEN default
    ELSE IF Field(row, Head(cols)) # <<>> THEN Field(row, Head(cols))
    ELSE FirstOf(row, Tail(cols), default)

NameColumns(v) ==
    IF v = "sales" THEN <<"product_name", "name", "item", "product", "description">>
    ELSE <<"name", "item", "product", "description">>
CostColumns(v) ==
    IF v = "sales" THEN <<"cost_price", "cost", "price", "total", "amount">>
    ELSE <<"cost", "price", "total", "amount">>
QuantityColumns(v) ==
    IF v = "sales" THEN <<"quantity_purchased", "quantity", "qty", "units">>
    ELSE <<"quantity", "qty", "units">>

\* the numbers JavaScript parses: NaN, or a value (an amount in cents, or a count)
NaN == [nan |-> TRUE]
Number(n) == [nan |-> FALSE, value |-> n]
isNaN(x) == x.nan

\* .replace(/[$,]/g, '')
RECURSIVE replaceMoney(_)
replaceMoney(s) ==
    IF s = <<>> THEN <<>>
    ELSE (IF Head(s) \in {"$", ","} THEN <<>> ELSE <<Head(s)>>) \o replaceMoney(Tail(s))

\* parseFloat(s) in cents, for decimal notation with at most two decimals:
\* leading whitespace, a sign, digits, a point and digits; what follows is ignored
parseFloat(s) ==
    LET start == SkipSpace(s, 1)
        signed == start <= Len(s) /\ s[start] \in {"+", "-"}
        first == IF signed THEN start + 1 ELSE start
        point == SkipDigits(s, first)
        hasPoint == point <= Len(s) /\ s[point] = "."
        last == IF hasPoint THEN SkipDigits(s, point + 1) ELSE point
        decimals == IF hasPoint THEN last - point - 1 ELSE 0
        cents == IF decimals = 0 THEN 0
                 ELSE IF decimals = 1 THEN 10 * DigitVal(s[point + 1])
                 ELSE 10 * DigitVal(s[point + 1]) + DigitVal(s[point + 2])
        magnitude == 100 * parseInt(s, first, point - 1) + cents
    IN  IF (point - first) + decimals = 0 THEN NaN
        ELSE Number(IF signed /\ s[start] = "-" THEN 0 - magnitude ELSE magnitude)

\* parseInt(s) without a radix, for decimal digits
parseIntPrefix(s) ==
    LET start == SkipSpace(s, 1)
        signed == start <= Len(s) /\ s[start] \in {"+", "-"}
        first == IF signed THEN start + 1 ELSE start
        last == SkipDigits(s, first)
    IN  IF last = first THEN NaN
        ELSE Number(IF signed /\ s[start] = "-" THEN 0 - parseInt(s, first, last - 1)
                    ELSE parseInt(s, first, last - 1))

\* x || d for a number x: NaN and 0 are falsy
OrElse(x, d) == IF isNaN(x) \/ x.value = 0 THEN d ELSE x.value

\* a negative cost passes
InvalidCostNaNOnly(cost) == isNaN(cost)

\* isNaN(cost) || cost < 0
InvalidCost(cost) == isNaN(cost) \/ cost.value < 0

\* the locals of the loop body for a row
RowName(row) == FirstOf(row, NameColumns(version), <<>>)
RowCostStr(row) == FirstOf(row, CostColumns(version), Chars("0"))
RowCost(row) == parseFloat(replaceMoney(RowCostStr(row)))
RowQuantity(row) == OrElse(parseIntPrefix(FirstOf(row, QuantityColumns(version), Chars("1"))), 1)
RowCashPrice(row) == OrElse(parseFloat(replaceMoney(Field(row, "cash"))), 0)
RowEbayPrice(row) == OrElse(parseFloat(replaceMoney(Field(row, "sale_price"))), 0)
RowQtySold(row) == OrElse(parseIntPrefix(FirstOf(row, <<"qty_sold", "quantity_sold">>, <<>>)), 0)
RowShippingFees(row) ==
    OrElse(parseFloat(replaceMoney(FirstOf(row, <<"shipping_fees", "shipping">>, <<>>))), 0)

\* errors.push(`Row ${i + 2}: ...`)
PushError(message) == errors' = Append(errors, [row |-> rowIndex + 2, message |-> message])

\* saveLot({ name, cost, quantity, purchaseDate }) returns the lot it stored
NewLot(row) ==
    [id |-> Len(lots) + 1, name |-> RowName(row), cost |-> RowCost(row).value,
     quantity |-> RowQuantity(row)]

\* recordSale(newLot.id, cashPrice, qtySold, 'facebook', 0, saleDate), or
\* recordSale(newLot.id, ebayPrice, qtySold, 'ebay', shippingFees, saleDate)
NewSale(row, lotId) ==
    IF RowCashPrice(row) > 0
    THEN [lotId |-> lotId, price |-> RowCashPrice(row), qty |-> RowQtySold(row),
          platform |-> "facebook", shipping |-> 0]
    ELSE [lotId |-> lotId, price |-> RowEbayPrice(row), qty |-> RowQtySold(row),
          platform |-> "ebay", shipping |-> RowShippingFees(row)]

\* the part of the loop body after lotsImported++ (part_001 only)
RecordSaleOf(row, lotId) ==
    IF version = "sales" /\ RowQtySold(row) > 0 /\ (RowCashPrice(row) > 0 \/ RowEbayPrice(row) > 0)
    THEN \E recorded \in BOOLEAN :
            IF recorded
            THEN /\ sales' = Append(sales, NewSale(row, lotId))
                 /\ salesImported' = salesImported + 1
                 /\ UNCHANGED errors
            ELSE /\ PushError("recordSale failed")
                 /\ UNCHANGED <<sales, salesImported>>
    ELSE UNCHANGED <<sales, salesImported, errors>>

\* a parsed row of a file with the columns product_name, name, cost_price, cost,
\* quantity, cash, sale_price, shipping_fees and qty_sold
Row(productName, itemName, costPrice, cost, quantity, cash, salePrice, shippingFees, qtySold) ==
    [product_name |-> productName, name |-> itemName, cost_price |-> costPrice, cost |-> cost,
     quantity |-> quantity, cash |-> cash, sale_price |-> salePrice,
     shipping_fees |-> shippingFees, qty_sold |-> qtySold]

SampleRows ==
    {Row(Chars("Lamp"), <<>>, Chars("25.99"), <<>>, Chars("5"), Chars("35.00"), <<>>, Chars("0"), Chars("2")),
     Row(Chars("Mug"), <<>>, Chars("$1,010.50"), <<>>, Chars("10"), <<>>, Chars("18.99"), Chars("3.50"), Chars("3")),
     Row(Chars("Vase"), <<>>, Chars("8"), <<>>, <<>>, Chars("$35"), Chars("18.99"), Chars("3.50"), Chars("1")),
     Row(Chars("Sofa"), <<>>, Chars("45.00"), <<>>, Chars("3"), <<>>, <<>>, <<>>, <<>>),
     Row(<<>>, Chars("Desk"), <<>>, Chars("12"), Chars("x"), <<>>, <<>>, <<>>, <<>>),
     Row(<<>>, <<>>, Chars("5.00"), <<>>, Chars("1"), Chars("9.00"), <<>>, <<>>, Chars("1")),
     Row(Chars("Rug"), <<>>, Chars("abc"), <<>>, Chars("1"), Chars("9.00"), <<>>, <<>>, Chars("1")),
     Row(Chars("Pot"), <<>>, Chars("-5"), Chars("7"), Chars("1"), Chars("9.00"), <<>>, <<>>, Chars("1")),
     Row(Chars("Pan"), <<>>, <<>>, <<>>, Chars("2"), Chars("0"), <<>>, <<>>, Chars("2")),
     Row(Chars("Cup"), <<>>, Chars("3.5"), <<>>, Chars("2"), Chars("9.00"), Chars("4.00"), <<>>, Chars("0"))}

\* the sequences of at most n sample rows
RECURSIVE RowsOf(_)
RowsOf(n) ==
    IF n = 0 THEN {<<>>}
    ELSE LET S == RowsOf(n - 1) IN S \cup {Append(s, r) : s \in S, r \in SampleRows}

\* importLotsFromCSV(file) is called: const text = await file.text()
importLotsFromCSV ==
    /\ importPc = "idle"
    /\ importPc' = "reading"
    /\ UNCHANGED <<version, rows, rowIndex, lotsImported, salesImported, errors, result, lots, sales>>
    /\ UNCHANGED <<ocrVars, routerVars>>

\* file.text() resolves: const rows = parseCSV(text), and the counters are set
TextResolve ==
    /\ importPc = "reading"
    /\ \E parsed \in RowsOf(MaxRows) : rows' = parsed
    /\ rowIndex' = 0
    /\ lotsImported' = 0
    /\ salesImported' = 0
    /\ errors' = <<>>
    /\ importPc' = "looping"
    /\ UNCHANGED <<version, result, lots, sales>>
    /\ UNCHANGED <<ocrVars, routerVars>>

\* file.text() rejects: the promise of importLotsFromCSV rejects
TextReject ==
    /\ importPc = "reading"
    /\ importPc' = "rejected"
    /\ UNCHANGED <<version, rows, rowIndex, lotsImported, salesImported, errors, result, lots, sales>>
    /\ UNCHANGED <<ocrVars, routerVars>>

\* one iteration of the loop over rows; saveLot and recordSale may throw
ImportRow ==
    /\ importPc = "looping"
    /\ rowIndex < Len(rows)
    /\ LET row == rows[rowIndex + 1]
       IN  IF RowName(row) = <<>>
           THEN /\ PushError(IF version = "sales" THEN "Missing product name" ELSE "Missing name")
                /\ UNCHANGED <<lotsImported, salesImported, lots, sales>>
           ELSE IF InvalidCost(RowCost(row))
           THEN /\ PushError("Invalid cost")
                /\ UNCHANGED <<lotsImported, salesImported, lots, sales>>
           ELSE \E saved \in BOOLEAN :
                   IF saved
                   THEN /\ lots' = Append(lots, NewLot(row))
                        /\ lotsImported' = lotsImported + 1
                        /\ RecordSaleOf(row, NewLot(row).id)
                   ELSE /\ PushError("saveLot failed")
                        /\ UNCHANGED <<lotsImported, salesImported, lots, sales>>
    /\ rowIndex' = rowIndex + 1
    /\ UNCHANGED <<version, importPc, rows, result>>
    /\ UNCHANGED <<ocrVars, routerVars>>

\* return { success: lotsImported, salesImported, errors }
\* (return { success, errors } in csvImport.js)
ImportReturn ==
    /\ importPc = "looping"
    /\ rowIndex = Len(rows)
    /\ result' = IF version = "sales"
                 THEN [success |-> lotsImported, salesImported |-> salesImported, errors |-> errors]
                 ELSE [success |-> lotsImported, errors |-> errors]
    /\ importPc' = "returned"
    /\ UNCHANGED <<version, rows, rowIndex, lotsImported, salesImported, errors, lots, sales>>
    /\ UNCHANGED <<ocrVars, routerVars>>

\* one import, by either version of the service, into an empty storage
ImportInit ==
    /\ env = [calls |-> {}, texts |-> "samples"]
    /\ InitCalls
    /\ RouterIdle
    /\ version \in {"sales", "simple"}
    /\ importPc = "idle"
    /\ rows = <<>>
    /\ rowIndex = 0
    /\ lotsImported = 0
    /\ salesImported = 0
    /\ errors = <<>>
    /\ result = Null
    /\ lots = <<>>
    /\ sales = <<>>

ImportNext ==
    \/ importLotsFromCSV
    \/ TextResolve
    \/ TextReject
    \/ ImportRow
    \/ ImportReturn

SpecImport == ImportInit /\ [][ImportNext]_vars

\* a row without a product name; a row whose cost does not parse or is negative
MissingName(row) == RowName(row) = <<>>
BadCost(row) == isNaN(RowCost(row)) \/ RowCost(row).value < 0

\* C19: importLotsFromCSV saves at most one lot and records at most one sale per
\* row; a row with a missing name or an unparsable or negative cost saves no lot,
\* records no sale and adds exactly one error; a sale is recorded only after the
\* same row's lot was saved, against that lot's id, and only when qty sold > 0 and
\* a cash or sale price > 0 (cash/Facebook taking precedence over eBay); the
\* returned success equals the number of lots saved and salesImported <= success.
C19_ImportInvariants ==
    [][/\ (importPc = "looping" /\ rowIndex' = rowIndex + 1) =>
            LET row == rows[rowIndex + 1]
            IN  /\ lots' = lots \/ (Len(lots') = Len(lots) + 1 /\ SubSeq(lots', 1, Len(lots)) = lots)
                /\ sales' = sales \/ (Len(sales') = Len(sales) + 1 /\ SubSeq(sales', 1, Len(sales)) = sales)
                /\ (MissingName(row) \/ BadCost(row)) =>
                      (lots' = lots /\ sales' = sales /\ Len(errors') = Len(errors) + 1)
                /\ sales' # sales =>
                      /\ Len(lots') = Len(lots) + 1
                      /\ sales'[Len(sales')].lotId = lots'[Len(lots')].id
                      /\ sales'[Len(sales')].qty = RowQtySold(row)
                      /\ RowQtySold(row) > 0
                      /\ RowCashPrice(row) > 0 \/ RowEbayPrice(row) > 0
                      /\ IF RowCashPrice(row) > 0
                         THEN /\ sales'[Len(sales')].platform = "facebook"
                              /\ sales'[Len(sales')].price = RowCashPrice(row)
                         ELSE /\ sales'[Len(sales')].platform = "ebay"
                              /\ sales'[Len(sales')].price = RowEbayPrice(row)
       /\ importPc' = "returned" =>
            /\ result'.success = Len(lots')
            /\ Len(sales') <= result'.success
            /\ "salesImported" \in DOMAIN result' =>
                  (result'.salesImported = Len(sales') /\ result'.salesImported <= result'.success)
      ]_vars

\* a row with a cash and a sale price was saved and sold on Facebook, a row with a
\* negative cost was refused, and the import has returned
C19_Witness ==
    /\ importPc = "returned"
    /\ Len(rows) = 2
    /\ RowCashPrice(rows[1]) > 0 /\ RowEbayPrice(rows[1]) > 0
    /\ ~ isNaN(RowCost(rows[2])) /\ RowCost(rows[2]).value < 0
    /\ Len(lots) = 1
    /\ Len(sales) = 1 /\ sales[1].platform = "facebook" /\ sales[1].lotId = lots[1].id
    /\ Len(errors) = 1 /\ errors[1] = [row |-> 3, message |-> "Invalid cost"]
    /\ result = [success |-> 1, salesImported |-> 1, errors |-> errors]

====
